---- MODULE Spec2Model ----
(***************************************************************************)
(* QBox: the persistent DuckDB instance manager (DuckDBManager), the       *)
(* connection repository and the callers that attach, detach and reset.    *)
(*                                                                         *)
(* Names are sequences of one-character strings, so that the identifier    *)
(* sanitizer is computed character by character as the code does.          *)
(* Every handler of the application is an `async def` without an await     *)
(* around its calls into the manager, and the manager's methods are plain  *)
(* synchronous functions: on the single event loop each call runs to its   *)
(* end before another handler runs, so one call is one action.             *)
(***************************************************************************)
EXTENDS Integers, Sequences, FiniteSets, TLC

(***************************************************************************)
(* Bounds and input sets                                                   *)
(***************************************************************************)
MaxManagers == 2

ConnIds == {"c1", "c2"}
FileIds == {"f1", "f2"}
\* the file ids the manager's interface is driven with
UploadedFiles == {"f1"}
Tasks == {"t1", "t2"}

\* display names a user gives to connections; the second starts with a digit
ConnNames == { <<"M", "y", " ", "D", "b">>, <<"1", "x">> }
\* names offered to the repository: also one that sanitizes like the first,
\* the empty name and a name without any letter or digit
RepoNames == ConnNames \cup { <<"m", "y", "-", "d", "b">>, <<>>, <<"-">> }
\* logical names of uploaded files; the two differ and derive the same view
FileNames == { <<"s", "a", "l", "e", "s">>, <<"S", "a", "l", "e", "s">> }
\* a logical name that derives a view of its own
OtherFileNames == { <<"t", "a", "x">> }
FileTypes == {"csv", "txt"}
ConnTypes == {"postgres", "s3"}

NoName == << "<none>" >>
NoConfig == [name |-> NoName, type |-> "none"]

(***************************************************************************)
(* The identifier sanitizer                                                *)
(***************************************************************************)
MaxIdentifierLen == 50

LowerLetters == {"a","b","c","d","e","f","g","h","i","j","k","l","m",
                 "n","o","p","q","r","s","t","u","v","w","x","y","z"}
Digits == {"0","1","2","3","4","5","6","7","8","9"}
UpperToLower == [c \in {"A","B","C","D","E","F","G","H","I","J","K","L","M",
                        "N","O","P","Q","R","S","T","U","V","W","X","Y","Z"} |->
                   CASE c = "A" -> "a" [] c = "B" -> "b" [] c = "C" -> "c"
                     [] c = "D" -> "d" [] c = "E" -> "e" [] c = "F" -> "f"
                     [] c = "G" -> "g" [] c = "H" -> "h" [] c = "I" -> "i"
                     [] c = "J" -> "j" [] c = "K" -> "k" [] c = "L" -> "l"
                     [] c = "M" -> "m" [] c = "N" -> "n" [] c = "O" -> "o"
                     [] c = "P" -> "p" [] c = "Q" -> "q" [] c = "R" -> "r"
                     [] c = "S" -> "s" [] c = "T" -> "t" [] c = "U" -> "u"
                     [] c = "V" -> "v" [] c = "W" -> "w" [] c = "X" -> "x"
                     [] c = "Y" -> "y" [] c = "Z" -> "z"]

\* str.lower()
Lower(s) == [i \in 1..Len(s) |->
               IF s[i] \in DOMAIN UpperToLower THEN UpperToLower[s[i]] ELSE s[i]]

IsAlnum(c) == c \in LowerLetters \cup Digits

RECURSIVE DropRun(_)
DropRun(s) == IF s = <<>> \/ IsAlnum(Head(s)) THEN s ELSE DropRun(Tail(s))

\* re.sub(r"[^a-z0-9]+", "_", s): every maximal run of other characters
\* becomes one underscore
RECURSIVE SubRuns(_)
SubRuns(s) ==
    IF s = <<>> THEN <<>>
    ELSE IF IsAlnum(Head(s)) THEN <<Head(s)>> \o SubRuns(Tail(s))
    ELSE <<"_">> \o SubRuns(DropRun(Tail(s)))

RECURSIVE LStrip(_)
LStrip(s) == IF s # <<>> /\ Head(s) = "_" THEN LStrip(Tail(s)) ELSE s

RECURSIVE RStrip(_)
RStrip(s) == IF s # <<>> /\ s[Len(s)] = "_"
             THEN RStrip(SubSeq(s, 1, Len(s) - 1)) ELSE s

\* str.strip("_")
Strip(s) == RStrip(LStrip(s))

\* DuckDBManager._generate_duckdb_identifier
generate_duckdb_identifier(name) ==
    LET sanitized == Strip(SubRuns(Lower(name)))
        prefixed == IF sanitized # <<>> /\ sanitized[1] \in Digits
                    THEN <<"d", "b", "_">> \o sanitized
                    ELSE sanitized
    IN IF Len(prefixed) > MaxIdentifierLen
       THEN RStrip(SubSeq(prefixed, 1, MaxIdentifierLen))
       ELSE prefixed

\* the same derivation without the cut at 50 characters
sanitize_identifier_uncut(name) ==
    LET sanitized == Strip(SubRuns(Lower(name)))
    IN IF sanitized # <<>> /\ sanitized[1] \in Digits
       THEN <<"d", "b", "_">> \o sanitized
       ELSE sanitized

\* ConnectionRepository._sanitize_identifier
sanitize_identifier(name) ==
    LET sanitized == Strip(SubRuns(Lower(name)))
        prefixed == IF sanitized # <<>> /\ sanitized[1] \in Digits
                    THEN <<"d", "b", "_">> \o sanitized
                    ELSE sanitized
    IN IF Len(prefixed) > MaxIdentifierLen
       THEN RStrip(SubSeq(prefixed, 1, MaxIdentifierLen))
       ELSE prefixed

\* the view name register_file derives: both branches of its digit test
\* prefix "file_"
file_view_name(file_name) ==
    <<"f", "i", "l", "e", "_">> \o Strip(SubRuns(Lower(file_name)))

\* the two derivations over the names in use, computed once
duckdb_identifier == [n \in RepoNames |-> generate_duckdb_identifier(n)]
sanitized_identifier == [n \in RepoNames |-> sanitize_identifier(n)]
view_name_of == [n \in FileNames \cup OtherFileNames |-> file_view_name(n)]

Identifiers == {duckdb_identifier[n] : n \in ConnNames}
ViewNames == {view_name_of[n] : n \in FileNames}

(***************************************************************************)
(* State                                                                   *)
(***************************************************************************)
Managers == 1..MaxManagers

VARIABLES
    saved,                \* connections table: id -> [name, type] or NoConfig
    connections,          \* ConnectionManager.connections (its keys)
    duckdb_manager,       \* module global _duckdb_manager: 0 is None
    created,              \* DuckDBManager objects constructed so far
    s3_service,           \* S3Service singleton's self.duckdb_manager: 0 = not built
    conn,                 \* per manager: self.conn is not None
    opened,               \* per manager: a handle was created at least once
    boots,                \* per manager: runs of _install_extensions on the current handle
    attached_connections, \* per manager: connection_id -> identifier or NoName
    registered_files,     \* per manager: file_id -> view name or NoName
    dbs,                  \* engine: names of attached databases
    secrets,              \* engine: names of secrets
    views,                \* engine: views in the database file
    requests,             \* requests in flight on the event loop: task -> record
    selections,           \* query_selections rows: [query, connection_id]
    sql_history,          \* query_sql_history of one query: its rows [id,
                          \* created_at] and the AUTOINCREMENT sequence
    clock,                \* the wall clock datetime.now() reads, and how
                          \* often it was set back
    lastOp                \* the last call and what it observed

vars == <<saved, connections, duckdb_manager, created, s3_service, conn, opened,
          boots, attached_connections, registered_files, dbs, secrets, views,
          requests, selections, sql_history, clock, lastOp>>

queryVars == <<selections, sql_history, clock>>
repoVars == <<saved, connections, queryVars>>
globalVars == <<duckdb_manager, created, s3_service>>
sessionVars == <<conn, opened, boots>>
cacheVars == <<attached_connections, registered_files>>
engineVars == <<dbs, secrets, views>>

\* what the last call was and what its caller saw: `stmts` counts the ATTACH,
\* CREATE SECRET or CREATE VIEW statements it issued, `hit` is the cache fast
\* path (for a removal: something was removed), `repeat` says that the call
\* before it was the same call with the same arguments and returned, `prev`
\* is what that call returned (for unregister_file: the view the cache held
\* for the file) and `total` the statements of the two together,
\* `session` is the session state a session call found, `cleared` the number
\* of cache entries a close dropped, `afterUpdate` says that the call before
\* an attach was an update_saved_connection that wrote the id's row,
\* `afterFailure` that it was the same attach operation for the id and
\* raised, `message` is the engine's message for a statement it rejected,
\* `page` and `page_size` are what an execute request asked for and
\* `response` is the body it was answered with, `config` and `existing` are
\* the incoming and the stored config dict of an update and `merged` is the
\* dict the merge left
NoHistory == [rows |-> {}, seq |-> 0]
NoClock == [now |-> 0, set_back |-> 0]

\* a key a configuration dict does not have
Absent == "<absent>"
\* the sensitive keys of a connection's config dict and its credential_type
NoFields == [password |-> Absent, aws_access_key_id |-> Absent,
             aws_secret_access_key |-> Absent, aws_session_token |-> Absent,
             credential_type |-> "default"]

\* QueryExecuteResult as the execute endpoint fills it
NoResponse == [success |-> TRUE, page |-> 0, page_size |-> 0, error |-> "none"]

\* the extensions the bootstrap installs and loads, in its order
Extensions == <<"postgres", "httpfs", "spatial">>
ExtensionNames == {Extensions[i] : i \in 1..Len(Extensions)}
\* what goes wrong with an extension: nothing, its INSTALL or its LOAD
NoFailures == [x \in ExtensionNames |-> "none"]

NoOp == [op |-> "init", mgr |-> 0, id |-> "", name |-> NoName, force |-> FALSE,
         outcome |-> "returned", result |-> NoName, stmts |-> 0, err |-> "none",
         hit |-> FALSE, afterDetach |-> FALSE, repeat |-> FALSE, prev |-> NoName,
         total |-> 0, session |-> "none", cleared |-> 0, afterUpdate |-> FALSE,
         afterFailure |-> FALSE, message |-> "none", page |-> 0,
         page_size |-> 0, response |-> NoResponse, config |-> NoFields,
         existing |-> NoFields, merged |-> NoFields, failures |-> NoFailures,
         attempted |-> {}, loaded |-> {}]

NoRequest == [kind |-> "none", id |-> "", state |-> "none", result |-> NoName,
              engineOk |-> TRUE]

Init ==
    /\ saved = [c \in ConnIds |-> NoConfig]
    /\ connections = {}
    /\ duckdb_manager = 0
    /\ created = 0
    /\ s3_service = 0
    /\ conn = [m \in Managers |-> FALSE]
    /\ opened = [m \in Managers |-> FALSE]
    /\ boots = [m \in Managers |-> 0]
    /\ attached_connections = [m \in Managers |-> [c \in ConnIds |-> NoName]]
    /\ registered_files = [m \in Managers |-> [f \in FileIds |-> NoName]]
    /\ dbs = {}
    /\ secrets = {}
    /\ views = {}
    /\ requests = [t \in Tasks |-> NoRequest]
    /\ selections = {}
    /\ sql_history = NoHistory
    /\ clock = NoClock
    /\ lastOp = NoOp


(***************************************************************************)
(* ConnectionRepository                                                    *)
(***************************************************************************)
Stored == {c \in ConnIds : saved[c] # NoConfig}

\* a Python string used as a condition: None and "" are false
Truthy(name) == name # NoName /\ name # <<>>

\* ConnectionRepository.check_identifier_collision: the names of the rows,
\* other than exclude_id, whose sanitized name equals the proposed one.  The
\* code returns the first such row of an unordered SELECT, or None.
check_identifier_collision(connection_name, exclude_id) ==
    LET proposed_identifier == sanitized_identifier[connection_name]
        rows == {c \in Stored : c # exclude_id}
        hits == {saved[c].name : c \in
                   {r \in rows : sanitized_identifier[saved[r].name] = proposed_identifier}}
    IN IF hits = {} THEN {NoName} ELSE hits

\* the unique index idx_connections_name_unique, as INSERT and UPDATE see it
NameIndexViolated(connection_id, name) ==
    \E c \in Stored : c # connection_id /\ saved[c].name = name

\* ConnectionRepository.save: the table after the call and how the call ended
save(connection_id, config, conflicting_name) ==
    IF Truthy(conflicting_name)
    THEN [saved |-> saved, err |-> "ValueError"]
    ELSE IF NameIndexViolated(connection_id, config.name)
    THEN [saved |-> saved, err |-> "IntegrityError"]
    ELSE [saved |-> [saved EXCEPT ![connection_id] = config], err |-> "none"]

RepoSave(connection_id, name, type) ==
    \E conflicting_name \in check_identifier_collision(name, connection_id) :
        LET r == save(connection_id, [name |-> name, type |-> type], conflicting_name)
        IN /\ saved' = r.saved
           /\ lastOp' = [NoOp EXCEPT !.op = "save", !.id = connection_id,
                           !.name = name, !.err = r.err,
                           !.hit = conflicting_name # NoName,
                           !.repeat = saved[connection_id] = r.saved[connection_id],
                           !.outcome = IF r.err = "none" THEN "returned" ELSE "raised"]
           /\ UNCHANGED <<connections, queryVars, globalVars, sessionVars,
                          cacheVars, engineVars, requests>>

\* ConnectionRepository.delete
RepoDelete(connection_id) ==
    /\ saved' = [saved EXCEPT ![connection_id] = NoConfig]
    /\ lastOp' = [NoOp EXCEPT !.op = "delete", !.id = connection_id]
    /\ UNCHANGED <<connections, queryVars, globalVars, sessionVars, cacheVars,
                   engineVars, requests>>

(***************************************************************************)
(* The global manager and the session                                      *)
(***************************************************************************)
\* get_duckdb_manager(): the manager it returns; a new DuckDBManager is the
\* next unused index, whose fields still hold their constructor values
get_duckdb_manager == IF duckdb_manager # 0 THEN duckdb_manager ELSE created + 1

ViaGlobal(m) ==
    /\ duckdb_manager # 0 \/ created < MaxManagers
    /\ m = get_duckdb_manager
    /\ duckdb_manager' = m
    /\ created' = IF duckdb_manager = 0 THEN created + 1 ELSE created

\* a bootstrap that runs its INSTALL/LOAD statements twice over
install_extensions_twice(b, m) == [b EXCEPT ![m] = @ + 2]

\* DuckDBManager._install_extensions: one more bootstrap run on the handle
install_extensions(b, m) == [b EXCEPT ![m] = @ + 1]

\* a connect() that hands out a handle it never opened
connect_unopened(m) == [conn |-> conn, opened |-> opened, boots |-> boots]

\* DuckDBManager.connect: the session fields after the call
connect(m) ==
    IF conn[m]
    THEN [conn |-> conn, opened |-> opened, boots |-> boots]
    ELSE [conn |-> [conn EXCEPT ![m] = TRUE],
          opened |-> [opened EXCEPT ![m] = TRUE],
          boots |-> install_extensions([boots EXCEPT ![m] = 0], m)]

Connected(m) ==
    LET s == connect(m)
    IN conn' = s.conn /\ opened' = s.opened /\ boots' = s.boots

SessionState(m) ==
    IF conn[m] THEN "Open" ELSE IF opened[m] THEN "Closed" ELSE "Unopened"

\* the engine's database instance lives while some handle on it is open
OtherHandleOpen(m) == \E o \in Managers : o # m /\ conn[o]

\* dict.clear() on one manager's cache
not_cleared(cache, m) == cache

cleared(cache, m) == [cache EXCEPT ![m] = [k \in DOMAIN cache[m] |-> NoName]]

\* the number of entries in one manager's two caches
Entries(m) ==
    Cardinality({c \in ConnIds : attached_connections[m][c] # NoName})
    + Cardinality({f \in FileIds : registered_files[m][f] # NoName})

\* DuckDBManager.close: session, caches and engine after the call
close(m) ==
    IF conn[m]
    THEN [conn |-> [conn EXCEPT ![m] = FALSE],
          boots |-> [boots EXCEPT ![m] = 0],
          attached |-> cleared(attached_connections, m),
          files |-> cleared(registered_files, m),
          dbs |-> IF OtherHandleOpen(m) THEN dbs ELSE {},
          secrets |-> IF OtherHandleOpen(m) THEN secrets ELSE {}]
    ELSE [conn |-> conn, boots |-> boots, attached |-> attached_connections,
          files |-> registered_files, dbs |-> dbs, secrets |-> secrets]


(***************************************************************************)
(* The engine, as the manager's statements see it                          *)
(***************************************************************************)
\* ATTACH ... AS name: the engine refuses a name that is attached already;
\* otherwise the remote database decides (reachable, credentials accepted)
engine_attach(d, name, ok) ==
    IF name \in d THEN [dbs |-> d, err |-> "exists"]
    ELSE IF ok THEN [dbs |-> d \cup {name}, err |-> "none"]
    ELSE [dbs |-> d, err |-> "engine"]

\* a DETACH that is never issued
engine_detach_skipped(d, name) == d

\* DETACH name inside try/except: the name is gone afterwards, and the error
\* for a name that is not attached is swallowed
engine_detach(d, name) == d \ {name}

\* a cache that is never consulted
cache_hit_never(cached, force) == FALSE

\* the fast path of the three attach operations: an entry is cached and the
\* caller did not force a new attach
cache_hit(cached, force) == ~force /\ cached # NoName

\* CREATE VIEW name AS ...: refused when the view exists or the file cannot
\* be read
engine_create_view(v, name, ok) ==
    IF name \in v THEN [views |-> v, err |-> "exists"]
    ELSE IF ok THEN [views |-> v \cup {name}, err |-> "none"]
    ELSE [views |-> v, err |-> "engine"]

(***************************************************************************)
(* DuckDBManager: attach                                                   *)
(***************************************************************************)
\* DuckDBManager.attach_postgres
attach_postgres(m, connection_id, connection_name, force_reattach, ok) ==
    LET cached_identifier == attached_connections[m][connection_id]
        identifier == duckdb_identifier[connection_name]
        detached == engine_detach(dbs, identifier)
        a == engine_attach(detached, identifier, ok)
    IN IF cache_hit(cached_identifier, force_reattach)
       THEN [hit |-> TRUE, outcome |-> "returned", result |-> cached_identifier,
             attached |-> attached_connections, dbs |-> dbs, stmts |-> 0,
             err |-> "none"]
       ELSE IF a.err = "none"
       THEN [hit |-> FALSE, outcome |-> "returned", result |-> identifier,
             attached |-> [attached_connections EXCEPT ![m][connection_id] = identifier],
             dbs |-> a.dbs, stmts |-> 1, err |-> "none"]
       ELSE [hit |-> FALSE, outcome |-> "raised", result |-> NoName,
             attached |-> attached_connections, dbs |-> a.dbs, stmts |-> 1,
             err |-> a.err]

\* DuckDBManager.configure_s3_secret.  Its CREATE SCHEMA IF NOT EXISTS leaves
\* a schema that no statement of the manager reads or removes; the schema is
\* not part of the state here.
configure_s3_secret(m, connection_id, connection_name, force_recreate, ok) ==
    LET cached_identifier == attached_connections[m][connection_id]
        identifier == duckdb_identifier[connection_name]
        dropped == secrets \ {identifier}
    IN IF cache_hit(cached_identifier, force_recreate)
       THEN [hit |-> TRUE, outcome |-> "returned", result |-> cached_identifier,
             attached |-> attached_connections, secrets |-> secrets,
             stmts |-> 0, err |-> "none"]
       ELSE IF ok
       THEN [hit |-> FALSE, outcome |-> "returned", result |-> identifier,
             attached |-> [attached_connections EXCEPT ![m][connection_id] = identifier],
             secrets |-> dropped \cup {identifier}, stmts |-> 1, err |-> "none"]
       ELSE [hit |-> FALSE, outcome |-> "raised", result |-> NoName,
             attached |-> attached_connections, secrets |-> dropped,
             stmts |-> 1, err |-> "engine"]

\* DuckDBManager.register_file
register_file(m, file_id, file_name, file_type, ok) ==
    LET cached_view == registered_files[m][file_id]
        view_name == view_name_of[file_name]
        dropped == views \ {view_name}
        c == engine_create_view(dropped, view_name, ok)
    IN IF cache_hit(cached_view, FALSE)
       THEN [hit |-> TRUE, outcome |-> "returned", result |-> cached_view,
             files |-> registered_files, views |-> views, stmts |-> 0,
             err |-> "none"]
       ELSE IF file_type \notin {"csv", "xlsx"}
       THEN [hit |-> FALSE, outcome |-> "raised", result |-> NoName,
             files |-> registered_files, views |-> dropped, stmts |-> 0,
             err |-> "ValueError"]
       ELSE IF c.err = "none"
       THEN [hit |-> FALSE, outcome |-> "returned", result |-> view_name,
             files |-> [registered_files EXCEPT ![m][file_id] = view_name],
             views |-> c.views, stmts |-> 1, err |-> "none"]
       ELSE [hit |-> FALSE, outcome |-> "raised", result |-> NoName,
             files |-> registered_files, views |-> c.views, stmts |-> 1,
             err |-> c.err]

DetachOps == {"detach_by_connection_id", "detach_source", "drop_secret",
              "remove_connection_from_cache", "cleanup_postgres", "cleanup_s3",
              "unregister_file", "unregister_file_by_view_name"}
AttachOps == {"attach_postgres", "configure_s3_secret", "register_file"}

\* the call before this one detached this id: it was addressed to the id, or
\* it removed the id's entry when it removed an engine object by name
AfterDetach(m, id) ==
    lastOp.op \in DetachOps /\ lastOp.mgr = m /\ lastOp.id = id

\* the call before this one wrote a new configuration for this id
AfterUpdate(id) ==
    lastOp.op = "update_saved_connection" /\ lastOp.hit /\ lastOp.id = id

\* the call before this one was this attach operation for this id, and it
\* raised on its engine statement
AfterFailure(op, m, id) ==
    /\ lastOp.op = op /\ lastOp.mgr = m /\ lastOp.id = id
    /\ lastOp.outcome = "raised" /\ lastOp.stmts = 1

\* the call before this one was the same call with the same arguments, and
\* it returned
Repeats(op, m, id, name, force) ==
    /\ lastOp.op = op /\ lastOp.mgr = m /\ lastOp.id = id /\ lastOp.name = name
    /\ lastOp.force = force /\ lastOp.outcome = "returned"

AttachRecord(op, m, id, name, force, r) ==
    LET again == Repeats(op, m, id, name, force)
    IN [NoOp EXCEPT !.op = op, !.mgr = m, !.id = id, !.name = name,
                    !.force = force, !.outcome = r.outcome, !.result = r.result,
                    !.stmts = r.stmts, !.err = r.err, !.hit = r.hit,
                    !.afterDetach = AfterDetach(m, id),
                    !.repeat = again,
                    !.afterUpdate = AfterUpdate(id),
                    !.afterFailure = AfterFailure(op, m, id),
                    !.prev = IF again THEN lastOp.result ELSE NoName,
                    !.total = IF again THEN lastOp.stmts + r.stmts ELSE r.stmts]

AttachPostgres(connection_id, connection_name, force_reattach, ok) ==
    \E m \in Managers :
        LET r == attach_postgres(m, connection_id, connection_name, force_reattach, ok)
        IN /\ ViaGlobal(m)
           /\ r.hit => ok
           /\ IF r.hit THEN UNCHANGED sessionVars ELSE Connected(m)
           /\ attached_connections' = r.attached
           /\ dbs' = r.dbs
           /\ lastOp' = AttachRecord("attach_postgres", m, connection_id,
                                     connection_name,
                                     force_reattach, r)
           /\ UNCHANGED <<repoVars, s3_service, registered_files, secrets,
                          views, requests>>

ConfigureS3Secret(connection_id, connection_name, force_recreate, ok) ==
    \E m \in Managers :
        LET r == configure_s3_secret(m, connection_id, connection_name,
                                     force_recreate, ok)
        IN /\ ViaGlobal(m)
           /\ r.hit => ok
           /\ IF r.hit THEN UNCHANGED sessionVars ELSE Connected(m)
           /\ attached_connections' = r.attached
           /\ secrets' = r.secrets
           /\ lastOp' = AttachRecord("configure_s3_secret", m, connection_id,
                                     connection_name,
                                     force_recreate, r)
           /\ UNCHANGED <<repoVars, s3_service, registered_files, dbs, views,
                          requests>>

RegisterFile(file_id, file_name, file_type, ok) ==
    \E m \in Managers :
        LET r == register_file(m, file_id, file_name, file_type, ok)
        IN /\ ViaGlobal(m)
           /\ r.hit => ok
           /\ IF r.hit THEN UNCHANGED sessionVars ELSE Connected(m)
           /\ registered_files' = r.files
           /\ views' = r.views
           /\ lastOp' = AttachRecord("register_file", m, file_id, file_name,
                                     FALSE, r)
           /\ UNCHANGED <<repoVars, s3_service, attached_connections, dbs,
                          secrets, requests>>


(***************************************************************************)
(* DuckDBManager: detach, unregister, close, execute                       *)
(***************************************************************************)
\* the ids a removal by engine name may find first: the loop over the dict
\* stops at the first entry with that value, "" when there is none
FirstHolder(cache, name) ==
    IF \E k \in DOMAIN cache : cache[k] = name
    THEN {k \in DOMAIN cache : cache[k] = name}
    ELSE {""}

Without(cache, key) == [k \in DOMAIN cache |-> IF k = key THEN NoName ELSE cache[k]]

\* DuckDBManager.detach_by_connection_id (deprecated: the cache entry only)
detach_by_connection_id(m, connection_id) ==
    [attached_connections EXCEPT ![m] = Without(@, connection_id)]

\* DuckDBManager.remove_connection_from_cache
remove_connection_from_cache(cache, m, connection_id) ==
    [cache EXCEPT ![m] = Without(@, connection_id)]

\* an except clause that lets the engine's error through
not_swallowed(err) == IF err = "none" THEN "returned" ELSE "raised"

\* `except Exception as e: logger.warning(...)`: whatever the engine
\* statement raised, the method returns
swallowed(err) == "returned"

\* DuckDBManager.detach_source; `first` is the entry its loop finds.  DETACH
\* of a name that is not attached raises inside the try block, before the
\* cache is touched
detach_source(m, identifier, first) ==
    IF ~conn[m]
    THEN [attached |-> attached_connections, dbs |-> dbs, removed |-> "",
          done |-> FALSE, err |-> "none"]
    ELSE IF identifier \notin dbs
    THEN [attached |-> attached_connections, dbs |-> dbs, removed |-> "",
          done |-> FALSE, err |-> "not attached"]
    ELSE [attached |-> [attached_connections EXCEPT ![m] = Without(@, first)],
          dbs |-> dbs \ {identifier}, removed |-> first, done |-> TRUE,
          err |-> "none"]

\* DuckDBManager.drop_secret; DROP SECRET IF EXISTS never fails
drop_secret(m, secret_name, first) ==
    IF ~conn[m]
    THEN [attached |-> attached_connections, secrets |-> secrets, removed |-> "",
          done |-> FALSE, err |-> "none"]
    ELSE [attached |-> [attached_connections EXCEPT ![m] = Without(@, first)],
          secrets |-> secrets \ {secret_name}, removed |-> first, done |-> TRUE,
          err |-> "none"]

\* DuckDBManager.get_file_view_name: the derived name if a SELECT on it
\* succeeds, else the name with a suffix cut from the file id
get_file_view_name(m, file_id, file_name, readable) ==
    IF conn[m] /\ view_name_of[file_name] \in views /\ readable
    THEN view_name_of[file_name]
    ELSE view_name_of[file_name] \o <<"_", file_id>>

\* DuckDBManager.unregister_file_by_view_name; DROP VIEW IF EXISTS never fails
unregister_file_by_view_name(m, view_name, first) ==
    IF ~conn[m]
    THEN [files |-> registered_files, views |-> views, removed |-> "",
          done |-> FALSE, err |-> "none"]
    ELSE [files |-> [registered_files EXCEPT ![m] = Without(@, first)],
          views |-> views \ {view_name}, removed |-> first, done |-> TRUE,
          err |-> "none"]

\* DuckDBManager.unregister_file
unregister_file(m, file_id, file_name, readable, first) ==
    LET view_name == get_file_view_name(m, file_id, file_name, readable)
        u == unregister_file_by_view_name(m, view_name, first)
    IN IF ~conn[m]
       THEN u
       ELSE [u EXCEPT !.files = [u.files EXCEPT ![m] = Without(@, file_id)]]

DetachByConnectionId(connection_id) ==
    \E m \in Managers :
        /\ ViaGlobal(m)
        /\ attached_connections' = detach_by_connection_id(m, connection_id)
        /\ lastOp' = [NoOp EXCEPT !.op = "detach_by_connection_id", !.mgr = m,
                                  !.id = connection_id]
        /\ UNCHANGED <<repoVars, s3_service, sessionVars, registered_files,
                       engineVars, requests>>

RemoveConnectionFromCache(connection_id) ==
    \E m \in Managers :
        /\ ViaGlobal(m)
        /\ attached_connections' =
               remove_connection_from_cache(attached_connections, m, connection_id)
        /\ lastOp' = [NoOp EXCEPT !.op = "remove_connection_from_cache", !.mgr = m,
                                  !.id = connection_id]
        /\ UNCHANGED <<repoVars, s3_service, sessionVars, registered_files,
                       engineVars, requests>>

DetachSource(identifier) ==
    \E m \in Managers :
      \E first \in FirstHolder(attached_connections[m], identifier) :
        LET r == detach_source(m, identifier, first)
        IN /\ ViaGlobal(m)
           /\ attached_connections' = r.attached
           /\ dbs' = r.dbs
           /\ lastOp' = [NoOp EXCEPT !.op = "detach_source", !.mgr = m,
                                     !.id = r.removed, !.name = identifier,
                                     !.hit = r.done, !.err = r.err,
                                     !.outcome = swallowed(r.err)]
           /\ UNCHANGED <<repoVars, s3_service, sessionVars, registered_files,
                          secrets, views, requests>>

DropSecret(secret_name) ==
    \E m \in Managers :
      \E first \in FirstHolder(attached_connections[m], secret_name) :
        LET r == drop_secret(m, secret_name, first)
        IN /\ ViaGlobal(m)
           /\ attached_connections' = r.attached
           /\ secrets' = r.secrets
           /\ lastOp' = [NoOp EXCEPT !.op = "drop_secret", !.mgr = m,
                                     !.id = r.removed, !.name = secret_name,
                                     !.hit = r.done, !.err = r.err,
                                     !.outcome = swallowed(r.err)]
           /\ UNCHANGED <<repoVars, s3_service, sessionVars, registered_files,
                          dbs, views, requests>>

UnregisterFileByViewName(view_name) ==
    \E m \in Managers :
      \E first \in FirstHolder(registered_files[m], view_name) :
        LET r == unregister_file_by_view_name(m, view_name, first)
        IN /\ ViaGlobal(m)
           /\ registered_files' = r.files
           /\ views' = r.views
           /\ lastOp' = [NoOp EXCEPT !.op = "unregister_file_by_view_name",
                                     !.mgr = m, !.id = r.removed,
                                     !.name = view_name, !.hit = r.done,
                                     !.err = r.err,
                                     !.outcome = swallowed(r.err)]
           /\ UNCHANGED <<repoVars, s3_service, sessionVars, attached_connections,
                          dbs, secrets, requests>>

UnregisterFile(file_id, file_name, readable) ==
    \E m \in Managers :
      \E first \in FirstHolder(registered_files[m],
                               get_file_view_name(m, file_id, file_name, readable)) :
        LET r == unregister_file(m, file_id, file_name, readable, first)
        IN /\ ViaGlobal(m)
           /\ registered_files' = r.files
           /\ views' = r.views
           /\ lastOp' = [NoOp EXCEPT !.op = "unregister_file", !.mgr = m,
                                     !.id = file_id,
                                     !.name = view_name_of[file_name],
                                     !.hit = r.done,
                                     !.prev = registered_files[m][file_id],
                                     !.result = get_file_view_name(m, file_id,
                                                    file_name, readable)]
           /\ UNCHANGED <<repoVars, s3_service, sessionVars, attached_connections,
                          dbs, secrets, requests>>

\* what a connection type's cleanup leaves to observe: `hit` says that the
\* call changed the cache or the engine, `repeat` that the call before it was
\* the same cleanup of the same id
CleanupRecord(op, m, connection_id, identifier, r) ==
    LET acted == Truthy(identifier)
    IN [NoOp EXCEPT !.op = op, !.mgr = m, !.id = connection_id,
                    !.name = identifier,
                    !.err = IF acted THEN r.err ELSE "none",
                    !.outcome = IF acted THEN swallowed(r.err) ELSE "returned",
                    !.hit = acted,
                    !.repeat = lastOp.op = op /\ lastOp.mgr = m
                               /\ lastOp.id = connection_id]

\* PostgresConnection.cleanup
PostgresCleanup(connection_id) ==
    \E m \in Managers :
      \E first \in FirstHolder(attached_connections[m],
                               attached_connections[m][connection_id]) :
        LET identifier == attached_connections[m][connection_id]
            r == detach_source(m, identifier, first)
        IN /\ ViaGlobal(m)
           /\ attached_connections' =
                  IF Truthy(identifier)
                  THEN remove_connection_from_cache(r.attached, m, connection_id)
                  ELSE attached_connections
           /\ dbs' = IF Truthy(identifier) THEN r.dbs ELSE dbs
           /\ lastOp' = CleanupRecord("cleanup_postgres", m, connection_id,
                                      identifier, r)
           /\ UNCHANGED <<repoVars, s3_service, sessionVars, registered_files,
                          secrets, views, requests>>

\* S3Connection.cleanup
S3Cleanup(connection_id) ==
    \E m \in Managers :
      \E first \in FirstHolder(attached_connections[m],
                               attached_connections[m][connection_id]) :
        LET identifier == attached_connections[m][connection_id]
            r == drop_secret(m, identifier, first)
        IN /\ ViaGlobal(m)
           /\ attached_connections' =
                  IF Truthy(identifier)
                  THEN remove_connection_from_cache(r.attached, m, connection_id)
                  ELSE attached_connections
           /\ secrets' = IF Truthy(identifier) THEN r.secrets ELSE secrets
           /\ lastOp' = CleanupRecord("cleanup_s3", m, connection_id,
                                      identifier, r)
           /\ UNCHANGED <<repoVars, s3_service, sessionVars, registered_files,
                          dbs, views, requests>>

\* DuckDBManager.execute_query with a statement that reads
ExecuteQuery(ok) ==
    \E m \in Managers :
        /\ ViaGlobal(m)
        /\ Connected(m)
        /\ lastOp' = [NoOp EXCEPT !.op = "execute_query", !.mgr = m,
                         !.session = SessionState(m),
                         !.outcome = IF ok THEN "returned" ELSE "raised",
                         !.err = IF ok THEN "none" ELSE "engine"]
        /\ UNCHANGED <<repoVars, s3_service, cacheVars, engineVars, requests>>

Close ==
    \E m \in Managers :
        LET r == close(m)
        IN /\ ViaGlobal(m)
           /\ conn' = r.conn
           /\ boots' = r.boots
           /\ attached_connections' = r.attached
           /\ registered_files' = r.files
           /\ dbs' = r.dbs
           /\ secrets' = r.secrets
           /\ lastOp' = [NoOp EXCEPT !.op = "close", !.mgr = m, !.hit = conn[m],
                            !.session = SessionState(m),
                            !.cleared = IF conn[m] THEN Entries(m) ELSE 0]
           /\ UNCHANGED <<repoVars, s3_service, opened, views, requests>>

(***************************************************************************)
(* The manager's interface, called with arguments of the caller's choice   *)
(***************************************************************************)
Next ==
    \/ \E c \in ConnIds, n \in ConnNames, force \in BOOLEAN, ok \in BOOLEAN :
           AttachPostgres(c, n, force, ok)
    \/ \E c \in ConnIds, n \in ConnNames, force \in BOOLEAN, ok \in BOOLEAN :
           ConfigureS3Secret(c, n, force, ok)
    \/ \E f \in UploadedFiles, n \in FileNames, t \in FileTypes, ok \in BOOLEAN :
           RegisterFile(f, n, t, ok)
    \/ \E c \in ConnIds : RemoveConnectionFromCache(c)
    \/ \E i \in Identifiers : DetachSource(i)
    \/ \E i \in Identifiers : DropSecret(i)
    \/ \E v \in ViewNames : UnregisterFileByViewName(v)
    \/ \E f \in UploadedFiles, n \in FileNames, readable \in BOOLEAN :
           UnregisterFile(f, n, readable)
    \/ \E ok \in BOOLEAN : ExecuteQuery(ok)
    \/ Close

Spec == Init /\ [][Next]_vars

(***************************************************************************)
(* Properties of the manager's interface                                   *)
(***************************************************************************)
\* the cache entry the last call was about
CachedFor(op) ==
    IF op.op = "register_file"
    THEN registered_files[op.mgr][op.id]
    ELSE attached_connections[op.mgr][op.id]

\* the engine objects of the kind the last attach creates
EngineObjects(op) ==
    IF op.op = "attach_postgres" THEN dbs
    ELSE IF op.op = "configure_s3_secret" THEN secrets
    ELSE views

\* C1: an attach without force that repeats the call before it (same
\* operation, id and name, which returned) issues no engine statement, returns
\* the name the first call returned, and the two calls together issued at most
\* the one ATTACH / CREATE SECRET / CREATE VIEW of the first.
C1_IdempotentAttach ==
    (lastOp.op \in AttachOps /\ lastOp.repeat /\ ~lastOp.force) =>
        /\ lastOp.outcome = "returned"
        /\ lastOp.stmts = 0
        /\ lastOp.result = lastOp.prev
        /\ lastOp.total <= 1

\* a second identical call after a first that issued the one statement
C1_Witness ==
    /\ lastOp.op \in AttachOps /\ lastOp.repeat /\ ~lastOp.force
    /\ lastOp.total = 1 /\ lastOp.stmts = 0
    /\ lastOp.result = lastOp.prev /\ lastOp.result # NoName

\* C2: after an attach call (attach_postgres, configure_s3_secret,
\* register_file) for an id raises, the cache holds no entry for that id.
C2_NoEntryAfterRaise ==
    (lastOp.op \in AttachOps /\ lastOp.outcome = "raised") =>
        CachedFor(lastOp) = NoName

\* a forced attach raised and the entry of an earlier attach is still cached,
\* while the engine no longer holds the object it names
C2_Poisoned ==
    /\ lastOp.op \in AttachOps /\ lastOp.outcome = "raised" /\ lastOp.force
    /\ CachedFor(lastOp) # NoName
    /\ CachedFor(lastOp) \notin EngineObjects(lastOp)

C6_BootstrapOncePerHandle ==
    \A m \in Managers :
        /\ SessionState(m) \in {"Unopened", "Open", "Closed"}
        /\ conn[m] => opened[m] /\ boots[m] = 1
        /\ ~conn[m] => boots[m] = 0

\* connect() re-created the handle of a closed session, or found it open
C6_Witness ==
    /\ lastOp.op = "execute_query" /\ lastOp.session = "Closed"
    /\ conn[lastOp.mgr] /\ boots[lastOp.mgr] = 1

\* C7: after close() returns the handle is released and both caches are
\* empty, and in no state is a handle released while a cache entry remains.
C7_CloseClearsCaches ==
    /\ \A m \in Managers : ~conn[m] => Entries(m) = 0
    /\ lastOp.op = "close" => ~conn[lastOp.mgr] /\ Entries(lastOp.mgr) = 0

\* a close() that found entries in both caches
C7_Witness ==
    /\ lastOp.op = "close" /\ lastOp.cleared >= 2
    /\ ~conn[lastOp.mgr] /\ Entries(lastOp.mgr) = 0

(***************************************************************************)
(* The repository on its own: save and delete in any order                 *)
(***************************************************************************)
NextRepo ==
    \/ \E c \in ConnIds, n \in RepoNames, t \in ConnTypes : RepoSave(c, n, t)
    \/ \E c \in ConnIds : RepoDelete(c)

SpecRepo == Init /\ [][NextRepo]_vars

\* C9: no two stored connections have names with the same sanitized
\* identifier, and a save that finds another stored connection with the same
\* sanitized identifier raises ValueError and leaves the row as it was.
C9_NoSanitizedCollision ==
    /\ \A c \in Stored : \A d \in Stored :
           c # d => sanitized_identifier[saved[c].name]
                        # sanitized_identifier[saved[d].name]
    /\ (lastOp.op = "save" /\ lastOp.hit) =>
           lastOp.err = "ValueError" /\ lastOp.repeat

\* two stored connections whose names both sanitize to the empty identifier
C9_TwoEmptyIdentifiers ==
    \E c \in Stored : \E d \in Stored :
        /\ c # d
        /\ saved[c].name # saved[d].name
        /\ sanitized_identifier[saved[c].name] = <<>>
        /\ sanitized_identifier[saved[d].name] = <<>>

(***************************************************************************)
(* The global manager over time: the S3 service and clear_all_data         *)
(***************************************************************************)
\* get_s3_service(): the first call builds the S3Service, whose constructor
\* stores the manager get_duckdb_manager() returns at that moment
GetS3Service ==
    \E m \in Managers :
        /\ s3_service = 0
        /\ ViaGlobal(m)
        /\ s3_service' = m
        /\ lastOp' = [NoOp EXCEPT !.op = "get_s3_service", !.mgr = m]
        /\ UNCHANGED <<repoVars, sessionVars, cacheVars, engineVars, requests>>

\* S3Service.drop_file_view: DROP VIEW IF EXISTS through the manager the
\* service stored, whichever manager is the global one by now
S3DropFileView(view_name) ==
    /\ s3_service # 0
    /\ Connected(s3_service)
    /\ views' = views \ {view_name}
    /\ lastOp' = [NoOp EXCEPT !.op = "drop_file_view", !.mgr = s3_service,
                              !.name = view_name,
                              !.session = SessionState(s3_service)]
    /\ UNCHANGED <<repoVars, globalVars, cacheVars, dbs, secrets, requests>>

\* clear_all_data: close the global manager, forget it, delete the engine's
\* database file and the connections database.  A handle that another
\* manager holds open keeps the deleted file's contents alive or not, as the
\* engine's instance cache decides.
ClearAllData ==
    \E m \in Managers :
      \E kept \in {views, {}} :
        LET r == close(m)
        IN /\ duckdb_manager # 0 \/ created < MaxManagers
           /\ m = get_duckdb_manager
           /\ created' = IF duckdb_manager = 0 THEN created + 1 ELSE created
           /\ duckdb_manager' = 0
           /\ conn' = r.conn
           /\ boots' = r.boots
           /\ attached_connections' = r.attached
           /\ registered_files' = r.files
           /\ dbs' = r.dbs
           /\ secrets' = r.secrets
           /\ kept = {} \/ OtherHandleOpen(m)
           /\ views' = kept
           /\ saved' = [c \in ConnIds |-> NoConfig]
           /\ lastOp' = [NoOp EXCEPT !.op = "clear_all_data", !.mgr = m,
                                     !.hit = conn[m],
                                     !.session = SessionState(m)]
           /\ selections' = {}
           /\ sql_history' = NoHistory
           /\ UNCHANGED <<connections, clock, s3_service, opened, requests>>

NextSession ==
    \/ \E ok \in BOOLEAN : ExecuteQuery(ok)
    \/ Close
    \/ \E f \in FileIds, n \in FileNames, t \in FileTypes, ok \in BOOLEAN :
           RegisterFile(f, n, t, ok)
    \/ GetS3Service
    \/ \E v \in ViewNames : S3DropFileView(v)
    \/ ClearAllData

SpecSession == Init /\ [][NextSession]_vars

OpenManagers == {m \in Managers : conn[m]}

\* C5: in every state at most one DuckDBManager holds an open handle on the
\* engine database, also after clear_all_data has reset the global manager
\* while the S3 service still holds the manager it obtained earlier.
C5_OneEngineSession == Cardinality(OpenManagers) <= 1

\* the manager the S3 service kept and the new global manager are both open
C5_TwoOpenHandles ==
    /\ s3_service # 0 /\ duckdb_manager # 0 /\ s3_service # duckdb_manager
    /\ conn[s3_service] /\ conn[duckdb_manager]

(***************************************************************************)
(* Connections over their lifetime: ConnectionManager and the strategies   *)
(***************************************************************************)
\* ConnectionManager.create_connection for a PostgreSQL configuration; the
\* id is a fresh uuid, `ok` is whether the data source could be reached
CreateConnection(connection_id, name, ok) ==
    \E conflicting_name \in check_identifier_collision(name, connection_id) :
        LET r == save(connection_id, [name |-> name, type |-> "postgres"],
                      conflicting_name)
        IN /\ saved[connection_id] = NoConfig
           /\ connection_id \notin connections
           /\ saved' = IF ok THEN r.saved ELSE saved
           /\ connections' = IF ok /\ r.err # "ValueError"
                             THEN connections \cup {connection_id}
                             ELSE connections
           /\ lastOp' = [NoOp EXCEPT !.op = "create_connection",
                            !.id = connection_id, !.name = name,
                            !.hit = ok /\ r.err = "none",
                            !.err = IF ok THEN r.err ELSE "connect"]
           /\ UNCHANGED <<queryVars, globalVars, sessionVars, cacheVars,
                          engineVars, requests>>

\* ConnectionManager.update_saved_connection: after the save it calls
\* detach_by_connection_id(connection_id) without the connection_type the
\* method requires, which raises TypeError before the method body runs
UpdateSavedConnection(connection_id, name, type) ==
    \E conflicting_name \in check_identifier_collision(name, connection_id) :
      \E m \in Managers :
        LET r == save(connection_id, [name |-> name, type |-> type],
                      conflicting_name)
            existing == saved[connection_id] # NoConfig
            saved_ok == existing /\ r.err = "none"
        IN /\ saved' = IF existing THEN r.saved ELSE saved
           /\ connections' = IF saved_ok THEN connections \ {connection_id}
                             ELSE connections
           /\ IF saved_ok
              THEN ViaGlobal(m)
              ELSE m = 1 /\ UNCHANGED <<duckdb_manager, created>>
           /\ lastOp' = [NoOp EXCEPT !.op = "update_saved_connection",
                            !.id = connection_id, !.name = name,
                            !.mgr = IF saved_ok THEN m ELSE 0,
                            !.hit = saved_ok,
                            !.outcome = IF existing /\ r.err \in {"none", "IntegrityError"}
                                        THEN "raised" ELSE "returned",
                            !.err = IF ~existing THEN "not found"
                                    ELSE IF r.err = "none" THEN "TypeError"
                                    ELSE r.err]
           /\ UNCHANGED <<queryVars, s3_service, sessionVars, cacheVars,
                          engineVars, requests>>

\* ConnectionManager.disconnect: with delete_saved it calls
\* detach_by_connection_id(connection_id) without the connection_type, so
\* the TypeError is raised before the selections and the row are deleted
Disconnect(connection_id, delete_saved) ==
    \E m \in Managers :
        /\ connections' = connections \ {connection_id}
        /\ IF delete_saved
           THEN ViaGlobal(m)
           ELSE m = 1 /\ UNCHANGED <<duckdb_manager, created>>
        /\ lastOp' = [NoOp EXCEPT !.op = "disconnect", !.id = connection_id,
                         !.force = delete_saved,
                         !.mgr = IF delete_saved THEN m ELSE 0,
                         !.name = IF delete_saved
                                  THEN attached_connections[m][connection_id]
                                  ELSE NoName,
                         !.hit = connection_id \in connections,
                         !.result = saved[connection_id].name,
                         !.outcome = IF delete_saved THEN "raised" ELSE "returned",
                         !.err = IF delete_saved THEN "TypeError" ELSE "none"]
        /\ UNCHANGED <<saved, queryVars, s3_service, sessionVars, cacheVars,
                       engineVars, requests>>

\* PostgresConnection.attach_to_duckdb, the connection built from its row
AttachToDuckdb(connection_id, ok) ==
    /\ saved[connection_id].type = "postgres"
    /\ AttachPostgres(connection_id, saved[connection_id].name, FALSE, ok)

\* S3Connection.connect once head_bucket has accepted the bucket
S3Connect(connection_id, ok) ==
    /\ saved[connection_id].type = "s3"
    /\ ConfigureS3Secret(connection_id, saved[connection_id].name, FALSE, ok)

NextApp ==
    \/ \E c \in ConnIds, n \in ConnNames, ok \in BOOLEAN : CreateConnection(c, n, ok)
    \/ \E c \in ConnIds, n \in ConnNames, t \in ConnTypes :
           UpdateSavedConnection(c, n, t)
    \/ \E c \in ConnIds, d \in BOOLEAN : Disconnect(c, d)
    \/ \E c \in ConnIds, ok \in BOOLEAN : AttachToDuckdb(c, ok)
    \/ \E c \in ConnIds, ok \in BOOLEAN : S3Connect(c, ok)
    \/ \E c \in ConnIds : saved[c].type = "postgres" /\ PostgresCleanup(c)
    \/ \E c \in ConnIds : saved[c].type = "s3" /\ S3Cleanup(c)
    \/ \E c \in ConnIds : DetachByConnectionId(c)
    \/ Close

SpecApp == Init /\ [][NextApp]_vars

\* C8: in every state the attachment cache of a manager maps distinct
\* connection ids to distinct identifiers, also after a connection is renamed
\* and another connection takes its old name.
C8_DistinctIdentifiers ==
    \A m \in Managers : \A c \in ConnIds : \A d \in ConnIds :
        (c # d /\ attached_connections[m][c] # NoName)
            => attached_connections[m][c] # attached_connections[m][d]

\* a renamed connection is still cached under its old name, which is now the
\* name of another stored connection that is cached under it too
C8_SharedIdentifier ==
    \E m \in Managers : \E c \in Stored : \E d \in Stored :
        /\ c # d
        /\ attached_connections[m][c] # NoName
        /\ attached_connections[m][c] = attached_connections[m][d]
        /\ duckdb_identifier[saved[c].name] # attached_connections[m][c]
        /\ duckdb_identifier[saved[d].name] = attached_connections[m][d]

\* C10: after ConnectionManager.disconnect with delete_saved of a stored
\* connection (the record's result is the name it was stored under), or after the
\* connection type's cleanup, the engine no longer holds the connection's
\* attachment or secret and the cache has no entry for its id (and the row is
\* gone after the disconnect); and while a stored connection is cached, the
\* object its entry names is still in the engine.
C10_CleanupExactlyOnDelete ==
    /\ (lastOp.op = "disconnect" /\ lastOp.force /\ lastOp.result # NoName) =>
           /\ lastOp.outcome = "returned"
           /\ saved[lastOp.id] = NoConfig
           /\ attached_connections[lastOp.mgr][lastOp.id] = NoName
           /\ lastOp.name \notin dbs \cup secrets
    /\ lastOp.op = "cleanup_postgres" =>
           /\ attached_connections[lastOp.mgr][lastOp.id] = NoName
           /\ lastOp.name \notin dbs
    /\ lastOp.op = "cleanup_s3" =>
           /\ attached_connections[lastOp.mgr][lastOp.id] = NoName
           /\ lastOp.name \notin secrets
    /\ \A m \in Managers : \A c \in Stored :
           attached_connections[m][c] # NoName
               => attached_connections[m][c] \in dbs \cup secrets

\* a disconnect with delete_saved raised, and the connection it was to delete
\* is still stored, cached and attached
C10_DeleteLeftEverything ==
    /\ lastOp.op = "disconnect" /\ lastOp.force /\ lastOp.outcome = "raised"
    /\ saved[lastOp.id] # NoConfig
    /\ attached_connections[lastOp.mgr][lastOp.id] # NoName
    /\ attached_connections[lastOp.mgr][lastOp.id] \in dbs

(***************************************************************************)
(* Requests on the event loop that attach a connection for the first time  *)
(***************************************************************************)
RequestKinds == {"execute_query", "attach_to_duckdb"}

\* a request arrives and waits for the event loop to run its handler
Submit(t, kind, connection_id) ==
    /\ requests[t].state = "none"
    /\ saved[connection_id].type = "postgres"
    /\ requests' = [requests EXCEPT ![t] =
                       [NoRequest EXCEPT !.kind = kind, !.id = connection_id,
                                         !.state = "pending"]]
    /\ lastOp' = [NoOp EXCEPT !.op = "submit", !.id = connection_id]
    /\ UNCHANGED <<repoVars, globalVars, sessionVars, cacheVars, engineVars>>

\* the execute_query endpoint up to its attach step, which runs without an
\* await: it reads the row and evaluates conn_config.alias, an attribute
\* ConnectionConfig does not have, so the AttributeError reaches the handler's
\* `except Exception` and the request is answered with success=False
RunExecuteQuery(t) ==
    \E m \in Managers :
        /\ requests[t].state = "pending"
        /\ requests[t].kind = "execute_query"
        /\ ViaGlobal(m)
        /\ requests' = [requests EXCEPT ![t].state = "failed",
                                        ![t].result = NoName]
        /\ lastOp' = [NoOp EXCEPT !.op = "execute_query_endpoint", !.mgr = m,
                         !.id = requests[t].id, !.outcome = "raised",
                         !.err = IF saved[requests[t].id] = NoConfig
                                 THEN "HTTPException" ELSE "AttributeError"]
        /\ UNCHANGED <<repoVars, s3_service, sessionVars, cacheVars, engineVars>>

\* a request that attaches through PostgresConnection.attach_to_duckdb
RunAttachToDuckdb(t, ok) ==
    \E m \in Managers :
        LET connection_id == requests[t].id
            r == attach_postgres(m, connection_id, saved[connection_id].name,
                                 FALSE, ok)
        IN /\ requests[t].state = "pending"
           /\ requests[t].kind = "attach_to_duckdb"
           /\ ViaGlobal(m)
           /\ r.hit => ok
           /\ IF r.hit THEN UNCHANGED sessionVars ELSE Connected(m)
           /\ attached_connections' = r.attached
           /\ dbs' = r.dbs
           /\ requests' = [requests EXCEPT
                              ![t].state = IF r.outcome = "returned"
                                           THEN "returned" ELSE "failed",
                              ![t].result = r.result,
                              ![t].engineOk = r.err # "engine"]
           /\ lastOp' = AttachRecord("attach_postgres", m, connection_id,
                                     saved[connection_id].name, FALSE, r)
           /\ UNCHANGED <<repoVars, s3_service, registered_files, secrets,
                          views>>

NextE ==
    \/ \E c \in ConnIds, n \in ConnNames, ok \in BOOLEAN : CreateConnection(c, n, ok)
    \/ \E t \in Tasks, k \in RequestKinds, c \in ConnIds : Submit(t, k, c)
    \/ \E t \in Tasks : RunExecuteQuery(t)
    \/ \E t \in Tasks, ok \in BOOLEAN : RunAttachToDuckdb(t, ok)

SpecE == Init /\ [][NextE]_vars

\* two requests for the same connection, both answered, the engine having
\* refused no ATTACH
BothAnswered(c) ==
    \A t \in Tasks :
        /\ requests[t].id = c
        /\ requests[t].state \in {"returned", "failed"}
        /\ requests[t].engineOk

\* C3: when two requests attach the same never-attached connection and the
\* engine refuses no ATTACH, both return the same object name and the engine
\* holds exactly one attachment, under that name, whatever the order in which
\* the event loop ran them.
C3_ConcurrentFirstAttach ==
    \A c \in ConnIds :
        BothAnswered(c) =>
            /\ \A t \in Tasks : requests[t].state = "returned"
            /\ requests["t1"].result = requests["t2"].result
            /\ requests["t1"].result # NoName
            /\ dbs = {requests["t1"].result}

\* both requests went through the endpoint and neither attached anything
C3_NeitherAttached ==
    \E c \in Stored :
        /\ BothAnswered(c)
        /\ \A t \in Tasks : requests[t].kind = "execute_query"
                            /\ requests[t].state = "failed"
        /\ dbs = {}

(***************************************************************************)
(* Properties of a configuration update                                    *)
(***************************************************************************)
\* C11: after update_saved_connection has written the new configuration of a
\* connection, the call returns and the cache has no entry for the id, and the
\* attach that follows does not take the cache's fast path.
C11_UpdateInvalidates ==
    /\ (lastOp.op = "update_saved_connection" /\ lastOp.hit) =>
           /\ lastOp.outcome = "returned"
           /\ attached_connections[lastOp.mgr][lastOp.id] = NoName
    /\ (lastOp.op \in AttachOps /\ lastOp.afterUpdate) => ~lastOp.hit

\* the attach after a rename returned the name cached for the old
\* configuration, which is not the name the new configuration derives
C11_StaleAfterUpdate ==
    /\ lastOp.op = "attach_postgres" /\ lastOp.afterUpdate /\ lastOp.hit
    /\ lastOp.result # duckdb_identifier[saved[lastOp.id].name]

(***************************************************************************)
(* Removal by name and the connection types' cleanup                       *)
(***************************************************************************)
NextCleanup ==
    \/ \E c \in ConnIds, n \in ConnNames, ok \in BOOLEAN :
           AttachPostgres(c, n, FALSE, ok)
    \/ \E c \in ConnIds, n \in ConnNames, ok \in BOOLEAN :
           ConfigureS3Secret(c, n, FALSE, ok)
    \/ \E f \in UploadedFiles, n \in FileNames, ok \in BOOLEAN :
           RegisterFile(f, n, "csv", ok)
    \/ \E i \in Identifiers : DetachSource(i)
    \/ \E i \in Identifiers : DropSecret(i)
    \/ \E v \in ViewNames : UnregisterFileByViewName(v)
    \/ \E c \in ConnIds : PostgresCleanup(c)
    \/ \E c \in ConnIds : S3Cleanup(c)
    \/ Close

SpecCleanup == Init /\ [][NextCleanup]_vars

RemovalOps == {"detach_source", "drop_secret", "unregister_file_by_view_name",
               "cleanup_postgres", "cleanup_s3"}
CleanupOps == {"cleanup_postgres", "cleanup_s3"}

MaxNameLen == 3
NameAlphabet == {"a", "Z", "7", "_", "-", " "}

\* 49 letters, a separator, a letter: the cut at 50 ends on an underscore
LongSeparated == [i \in 1..(MaxIdentifierLen + 1) |->
                    IF i = MaxIdentifierLen THEN "-" ELSE "a"]
\* a leading digit and 49 letters: 50 characters before the prefix
LongDigitFirst == [i \in 1..MaxIdentifierLen |-> IF i = 1 THEN "7" ELSE "a"]
\* letters only and longer than the cut, as "a" * 100 of
\* test_generate_identifier
LongLetters == [i \in 1..(MaxIdentifierLen + 2) |-> "a"]

SanitizerInputs ==
    UNION {[1..k -> NameAlphabet] : k \in 0..MaxNameLen}
        \cup {LongSeparated, LongDigitFirst, LongLetters}

InitSanitizer ==
    /\ saved = [c \in ConnIds |-> NoConfig]
    /\ connections = {}
    /\ duckdb_manager = 0
    /\ created = 0
    /\ s3_service = 0
    /\ conn = [m \in Managers |-> FALSE]
    /\ opened = [m \in Managers |-> FALSE]
    /\ boots = [m \in Managers |-> 0]
    /\ attached_connections = [m \in Managers |-> [c \in ConnIds |-> NoName]]
    /\ registered_files = [m \in Managers |-> [f \in FileIds |-> NoName]]
    /\ dbs = {}
    /\ secrets = {}
    /\ views = {}
    /\ requests = [t \in Tasks |-> NoRequest]
    /\ selections = {}
    /\ sql_history = NoHistory
    /\ clock = NoClock
    /\ \E n \in SanitizerInputs : lastOp = [NoOp EXCEPT !.name = n]

\* one call of DuckDBManager._generate_duckdb_identifier(name)
GenerateDuckdbIdentifier ==
    /\ lastOp.op = "init"
    /\ lastOp' = [lastOp EXCEPT !.op = "_generate_duckdb_identifier",
                                !.result = generate_duckdb_identifier(lastOp.name)]
    /\ UNCHANGED <<saved, connections, queryVars, duckdb_manager, created,
                   s3_service, conn, opened, boots, attached_connections,
                   registered_files, dbs, secrets, views, requests>>

\* one call of ConnectionRepository._sanitize_identifier(name)
SanitizeIdentifier ==
    /\ lastOp.op = "init"
    /\ lastOp' = [lastOp EXCEPT !.op = "_sanitize_identifier",
                                !.result = sanitize_identifier(lastOp.name)]
    /\ UNCHANGED <<saved, connections, queryVars, duckdb_manager, created,
                   s3_service, conn, opened, boots, attached_connections,
                   registered_files, dbs, secrets, views, requests>>

NextSanitizer == GenerateDuckdbIdentifier \/ SanitizeIdentifier

SpecSanitizer == InitSanitizer /\ [][NextSanitizer]_vars

\* ^[a-z][a-z0-9_]*$
MatchesIdentifierPattern(s) ==
    /\ s # <<>>
    /\ s[1] \in LowerLetters
    /\ \A i \in 1..Len(s) : s[i] \in LowerLetters \cup Digits \cup {"_"}

\* C13: for every display name, the empty name and the names without a
\* letter or digit included, the identifier the sanitizer returns matches
\* ^[a-z][a-z0-9_]*$ and is at most 50 characters long.
C13_SanitizerValid ==
    lastOp.op = "_generate_duckdb_identifier" =>
        /\ MatchesIdentifierPattern(lastOp.result)
        /\ Len(lastOp.result) <= MaxIdentifierLen

\* a name without a letter or digit sanitized to the empty identifier
C13_EmptyIdentifier ==
    /\ lastOp.op = "_generate_duckdb_identifier"
    /\ lastOp.name # <<>>
    /\ lastOp.result = <<>>

\* C24: for every display name the sanitizer returns the lowercased name with
\* every maximal run of characters outside [a-z0-9] replaced by one underscore
\* and the outer underscores stripped, prefixed with db_ if that is empty or
\* starts with a digit, then cut to 50 characters and stripped of the
\* underscore the cut leaves at the end.
C24_SanitizerExact ==
    lastOp.op = "_generate_duckdb_identifier" =>
        LET stripped == Strip(SubRuns(Lower(lastOp.name)))
            prefixed == IF stripped = <<>> \/ stripped[1] \in Digits
                        THEN <<"d", "b", "_">> \o stripped
                        ELSE stripped
        IN lastOp.result =
               IF Len(prefixed) > MaxIdentifierLen
               THEN RStrip(SubSeq(prefixed, 1, MaxIdentifierLen))
               ELSE prefixed

\* the empty name, returned as it is and not as db_
C24_EmptyNotPrefixed ==
    /\ lastOp.op = "_generate_duckdb_identifier"
    /\ lastOp.name = <<>>
    /\ lastOp.result # <<"d", "b", "_">>

\* C25: for every connection name the identifier the repository compares in
\* its collision check is the identifier the manager attaches under.
C25_SameIdentifier ==
    lastOp.op = "_sanitize_identifier" =>
        lastOp.result = generate_duckdb_identifier(lastOp.name)

\* a name longer than the cut, starting with a digit: both derivations
\* prefix it and cut it to 50 characters
C25_Witness ==
    /\ lastOp.op = "_sanitize_identifier"
    /\ lastOp.name = LongDigitFirst
    /\ Len(lastOp.result) = MaxIdentifierLen
    /\ SubSeq(lastOp.result, 1, 4) = <<"d", "b", "_", "7">>


(***************************************************************************)
(* Uploaded files: the upload handler and the manager's file interface     *)
(***************************************************************************)
UploadNames == FileNames \cup OtherFileNames
UploadViews == {view_name_of[n] : n \in UploadNames}

\* upload_file (api/files.py): the name check finds no row, the content is
\* written to disk, and file_repository.create_file is called without its
\* required query_id: the TypeError is answered as a 500 before
\* register_file is reached
UploadFile(file_name) ==
    /\ lastOp' = [NoOp EXCEPT !.op = "upload_file", !.name = file_name,
                              !.outcome = "raised", !.err = "TypeError"]
    /\ UNCHANGED <<repoVars, globalVars, sessionVars, cacheVars, engineVars,
                   requests>>

\* DuckDBManager.execute_query(f"SELECT * FROM {view_name}"): the engine
\* answers if the view is in the catalog and the file behind it can be read
\* (`hit` records the latter)
SelectFromView(view_name, readable) ==
    \E m \in Managers :
        LET ok == view_name \in views /\ readable
        IN /\ ViaGlobal(m)
           /\ Connected(m)
           /\ lastOp' = [NoOp EXCEPT !.op = "execute_query", !.mgr = m,
                            !.name = view_name, !.hit = readable,
                            !.session = SessionState(m),
                            !.outcome = IF ok THEN "returned" ELSE "raised",
                            !.err = IF ok THEN "none" ELSE "engine"]
           /\ UNCHANGED <<repoVars, s3_service, cacheVars, engineVars, requests>>

NextFiles ==
    \/ \E n \in UploadNames : UploadFile(n)
    \/ \E f \in FileIds, n \in UploadNames, t \in FileTypes, ok \in BOOLEAN :
           RegisterFile(f, n, t, ok)
    \/ \E f \in FileIds, n \in UploadNames, readable \in BOOLEAN :
           UnregisterFile(f, n, readable)
    \/ \E v \in UploadViews : UnregisterFileByViewName(v)
    \/ \E v \in UploadViews, readable \in BOOLEAN : SelectFromView(v, readable)
    \/ Close

SpecFiles == Init /\ [][NextFiles]_vars

\* C14: no two distinct registered files share a view name.
C14_DistinctViewNames ==
    \A m \in Managers : \A f, g \in FileIds :
        (f # g /\ registered_files[m][f] # NoName) =>
            registered_files[m][f] # registered_files[m][g]

\* a second file registered under the view name the first file holds
C14_SharedViewName ==
    /\ lastOp.op = "register_file" /\ lastOp.outcome = "returned" /\ ~lastOp.hit
    /\ \E g \in FileIds :
           /\ g # lastOp.id
           /\ registered_files[lastOp.mgr][g] = lastOp.result

\* C15: from the return of register_file with view name v until the file is
\* unregistered, the view v exists in the engine and execute_query on v
\* succeeds: every view name the file cache holds is a view of the engine,
\* and a SELECT on such a view whose file can be read returns.
C15_RegisteredViewQueryable ==
    /\ \A m \in Managers : \A f \in FileIds :
           registered_files[m][f] # NoName => registered_files[m][f] \in views
    /\ (/\ lastOp.op = "execute_query" /\ lastOp.hit
        /\ \E f \in FileIds : registered_files[lastOp.mgr][f] = lastOp.name)
           => lastOp.outcome = "returned"

\* a SELECT on the view of a file that is still registered, refused by the
\* engine although the file can be read: the view is gone
C15_RegisteredViewGone ==
    /\ lastOp.op = "execute_query" /\ lastOp.hit /\ lastOp.outcome = "raised"
    /\ \E f \in FileIds : registered_files[lastOp.mgr][f] = lastOp.name
    /\ lastOp.name \notin views

\* C16: after unregister_file(file_id, file_name) of a file registered under
\* that name, the view name register_file returned is no view of the engine
\* any more and file_id is not in the file cache.
C16_UnregisterRemovesView ==
    (/\ lastOp.op = "unregister_file"
     /\ lastOp.prev # NoName /\ lastOp.prev = lastOp.name) =>
        /\ lastOp.prev \notin views
        /\ registered_files[lastOp.mgr][lastOp.id] = NoName

\* an unregister_file whose probe of the view failed: it dropped the name
\* with the suffix and left the registered view in the engine
C16_ViewLeftBehind ==
    /\ lastOp.op = "unregister_file"
    /\ lastOp.prev # NoName /\ lastOp.prev = lastOp.name
    /\ lastOp.result # lastOp.prev
    /\ lastOp.prev \in views
    /\ registered_files[lastOp.mgr][lastOp.id] = NoName


(***************************************************************************)
(* Retry after a failed attach                                             *)
(***************************************************************************)
\* C19: the attach_postgres that follows an attach_postgres of the same id
\* which failed on its engine statement does not take the cached fast path,
\* issues its DETACH and ATTACH again, and returns and caches the name when
\* the engine accepts the ATTACH.
C19_FailedAttachRetryable ==
    (lastOp.op = "attach_postgres" /\ lastOp.afterFailure) =>
        /\ ~lastOp.hit
        /\ lastOp.stmts = 1
        /\ lastOp.err = "none" =>
               /\ lastOp.outcome = "returned"
               /\ attached_connections[lastOp.mgr][lastOp.id] = lastOp.result

\* the retry took the fast path: the entry of an attach before the failed
\* one was still cached, and the name it returns is not attached
C19_RetryOnStaleEntry ==
    /\ lastOp.op = "attach_postgres" /\ lastOp.afterFailure
    /\ lastOp.hit /\ lastOp.stmts = 0
    /\ lastOp.result \notin dbs


(***************************************************************************)
(* execute_query on a statement the engine rejects                         *)
(***************************************************************************)
\* the engine's messages for a statement with a syntax error and for one
\* that names a missing object
EngineMessages == {"Parser Error: syntax error at or near SELEC",
                   "Catalog Error: Table with name nonexistent_table does not exist!"}

\* a handler that raises an error of its own in place of the engine's
wrapped(message) == "Query execution failed"

\* `except Exception as e: logger.error(...); raise`: the exception the
\* engine raised goes on to the caller as it is
reraised(message) == message

\* DuckDBManager.execute_query(query); `message` is the engine's answer to
\* the statement, "none" when it accepts it
ExecuteStatement(message) ==
    \E m \in Managers :
        /\ ViaGlobal(m)
        /\ Connected(m)
        /\ lastOp' = [NoOp EXCEPT !.op = "execute_query", !.mgr = m,
                         !.session = SessionState(m),
                         !.message = message,
                         !.outcome = IF message = "none" THEN "returned"
                                     ELSE "raised",
                         !.err = IF message = "none" THEN "none"
                                 ELSE reraised(message)]
        /\ UNCHANGED <<repoVars, s3_service, cacheVars, engineVars, requests>>

NextExecute ==
    \/ \E c \in ConnIds, n \in ConnNames, ok \in BOOLEAN :
           AttachPostgres(c, n, FALSE, ok)
    \/ \E f \in FileIds, n \in FileNames, ok \in BOOLEAN :
           RegisterFile(f, n, "csv", ok)
    \/ \E message \in EngineMessages \cup {"none"} : ExecuteStatement(message)
    \/ Close

SpecExecute == Init /\ [][NextExecute]_vars

\* C17: an execute_query whose statement the engine rejects raises an error
\* that carries the engine's message unchanged, and the step leaves the
\* attachment cache and the file registration cache as they were and the
\* session open, without a new bootstrap when it was open before.
C17_RejectedQueryLeavesState ==
    [][(/\ lastOp'.op = "execute_query"
        /\ lastOp'.message # "none") =>
           /\ lastOp'.outcome = "raised"
           /\ lastOp'.err = lastOp'.message
           /\ UNCHANGED cacheVars
           /\ conn'[lastOp'.mgr]
           /\ conn[lastOp'.mgr] => UNCHANGED sessionVars]_vars

\* a rejected statement on an open session whose manager holds an attached
\* connection and a registered file
C17_Witness ==
    /\ lastOp.op = "execute_query" /\ lastOp.outcome = "raised"
    /\ lastOp.message \in EngineMessages /\ lastOp.err = lastOp.message
    /\ lastOp.session = "Open" /\ conn[lastOp.mgr]
    /\ \E c \in ConnIds : attached_connections[lastOp.mgr][c] # NoName
    /\ \E f \in FileIds : registered_files[lastOp.mgr][f] # NoName


(***************************************************************************)
(* The query execute endpoint                                              *)
(***************************************************************************)
\* QueryExecuteRequest: page >= 1 and 1 <= page_size <= 1000
Pages == {1, 2}
PageSizes == {1, 100}
\* source types of the query's table selections
SourceTypes == {"connection", "file", "s3"}

\* a handler that hands HTTP errors on to the client, as upload_file does
\* with `except HTTPException: raise`
caught_unless_http(err) ==
    IF err = "HTTPException" THEN "raised" ELSE "returned"

\* `except Exception as e:` around the attach loop and the two statements:
\* HTTPException is an Exception too, so the handler always returns
caught(err) == "returned"

\* the QueryExecuteResult of the except branch
failure_result(err, page, page_size) ==
    [success |-> FALSE, page |-> page, page_size |-> page_size, error |-> err]

\* execute_query (api/query.py) of a stored query with SQL text and at least
\* one selection.  A selection of a database connection is attached first:
\* a missing row raises HTTPException 404, a stored row raises AttributeError
\* on conn_config.alias.  Then the count statement and the page statement
\* run; `count_message` and `page_message` are the engine's answers
ExecuteQueryEndpoint(connection_id, types, page, page_size, count_message, page_message) ==
    \E m \in Managers :
        LET attach_err == IF "connection" \notin types THEN "none"
                          ELSE IF saved[connection_id] = NoConfig
                          THEN "HTTPException"
                          ELSE "AttributeError"
            err == IF attach_err # "none" THEN attach_err
                   ELSE IF count_message # "none" THEN reraised(count_message)
                   ELSE IF page_message # "none" THEN reraised(page_message)
                   ELSE "none"
        IN /\ ViaGlobal(m)
           /\ IF attach_err = "none" THEN Connected(m) ELSE UNCHANGED sessionVars
           /\ lastOp' = [NoOp EXCEPT
                            !.op = "execute_query_endpoint", !.mgr = m,
                            !.id = connection_id,
                            !.session = SessionState(m),
                            !.page = page, !.page_size = page_size,
                            !.err = err,
                            !.outcome = IF err = "none" THEN "returned"
                                        ELSE caught(err),
                            !.response =
                                IF err = "none"
                                THEN [NoResponse EXCEPT !.page = page,
                                                        !.page_size = page_size]
                                ELSE failure_result(err, page, page_size)]
           /\ UNCHANGED <<repoVars, s3_service, cacheVars, engineVars, requests>>

NextEndpoint ==
    \/ \E c \in ConnIds, n \in ConnNames, ok \in BOOLEAN : CreateConnection(c, n, ok)
    \/ \E c \in ConnIds, types \in (SUBSET SourceTypes) \ {{}},
          page \in Pages, page_size \in PageSizes,
          count_message, page_message \in EngineMessages \cup {"none"} :
           ExecuteQueryEndpoint(c, types, page, page_size, count_message,
                                page_message)
    \/ Close

SpecEndpoint == Init /\ [][NextEndpoint]_vars

\* C18: in the query execute endpoint every failure of attaching a selected
\* connection or of executing the count or the page statement is answered
\* with a result that has success = false, the error text and the requested
\* page and page_size, and is not raised to the client.
C18_FailuresAreStructured ==
    (lastOp.op = "execute_query_endpoint" /\ lastOp.err # "none") =>
        /\ lastOp.outcome = "returned"
        /\ ~lastOp.response.success
        /\ lastOp.response.error = lastOp.err
        /\ lastOp.response.page = lastOp.page
        /\ lastOp.response.page_size = lastOp.page_size

\* a request for a connection without a row, answered with the 404's text
\* in a result
C18_Witness ==
    /\ lastOp.op = "execute_query_endpoint" /\ lastOp.err = "HTTPException"
    /\ lastOp.outcome = "returned"
    /\ ~lastOp.response.success /\ lastOp.response.error = "HTTPException"
    /\ lastOp.response.page = 2 /\ lastOp.response.page_size = 100


(***************************************************************************)
(* S3Connection.connect with its bucket validation                         *)
(***************************************************************************)
\* what head_bucket answers: success, a ClientError with the code 404, 403
\* or another code, or NoCredentialsError
HeadBucketAnswers == {"ok", "404", "403", "500", "NoCredentialsError"}

\* a validation that reports every refusal with the generic reason
connection_error_generic(answer) == "Failed to access bucket"

\* self.connection_error for an answer of head_bucket that is not a success
connection_error(answer) ==
    CASE answer = "404" -> "Bucket does not exist"
      [] answer = "403" -> "Access denied to bucket"
      [] answer = "NoCredentialsError" -> "AWS credentials not found or invalid"
      [] OTHER -> "Failed to access bucket"

\* S3Connection.connect of a connection built with this id and name:
\* head_bucket first, configure_s3_secret only after it succeeded; `err` is
\* connection_error, "none" when connect returns True
S3ConnectBucket(connection_id, connection_name, answer, ok) ==
    IF answer # "ok"
    THEN /\ lastOp' = [NoOp EXCEPT !.op = "s3_connect", !.id = connection_id,
                                   !.name = connection_name,
                                   !.message = answer,
                                   !.err = connection_error(answer)]
         /\ UNCHANGED <<repoVars, globalVars, sessionVars, cacheVars,
                        engineVars, requests>>
    ELSE \E m \in Managers :
           LET r == configure_s3_secret(m, connection_id, connection_name,
                                        FALSE, ok)
           IN /\ ViaGlobal(m)
              /\ r.hit => ok
              /\ IF r.hit THEN UNCHANGED sessionVars ELSE Connected(m)
              /\ attached_connections' = r.attached
              /\ secrets' = r.secrets
              /\ lastOp' = [NoOp EXCEPT !.op = "s3_connect", !.mgr = m,
                                        !.id = connection_id,
                                        !.name = connection_name,
                                        !.message = answer,
                                        !.hit = r.hit, !.stmts = r.stmts,
                                        !.err = r.err]
              /\ UNCHANGED <<repoVars, s3_service, registered_files, dbs,
                             views, requests>>

NextS3 ==
    \/ \E c \in ConnIds, n \in ConnNames, answer \in HeadBucketAnswers,
          ok \in BOOLEAN : S3ConnectBucket(c, n, answer, ok)
    \/ \E c \in ConnIds : S3Cleanup(c)
    \/ Close

SpecS3 == Init /\ [][NextS3]_vars

\* C20: a connect whose bucket does not exist fails with the reason that the
\* bucket does not exist, which is not the reason given for a denied access
\* or for any other refusal, and the step configures no secret in the engine
\* and creates no cache entry.
C20_MissingBucket ==
    [][(lastOp'.op = "s3_connect" /\ lastOp'.message = "404") =>
           /\ lastOp'.err = "Bucket does not exist"
           /\ \A other \in HeadBucketAnswers \ {"ok", "404"} :
                  connection_error(other) # lastOp'.err
           /\ UNCHANGED <<cacheVars, engineVars>>]_vars

\* a connect refused for a missing bucket while another connection is
\* configured: the refused one is neither cached nor has a secret
C20_Witness ==
    /\ lastOp.op = "s3_connect" /\ lastOp.message = "404"
    /\ lastOp.err = "Bucket does not exist"
    /\ \A m \in Managers : attached_connections[m][lastOp.id] = NoName
    /\ duckdb_identifier[lastOp.name] \notin secrets
    /\ secrets # {}


(***************************************************************************)
(* Sensitive fields on update                                              *)
(***************************************************************************)
IncomingValues == {Absent, "", "new"}
StoredValues == {Absent, "old"}
S3SensitiveFields == {"aws_access_key_id", "aws_secret_access_key",
                      "aws_session_token"}

IncomingConfigs ==
    [password : IncomingValues, aws_access_key_id : IncomingValues,
     aws_secret_access_key : IncomingValues, aws_session_token : IncomingValues,
     credential_type : {"default", "manual"}]
StoredConfigs ==
    [password : StoredValues, aws_access_key_id : StoredValues,
     aws_secret_access_key : StoredValues, aws_session_token : StoredValues,
     credential_type : {"default", "manual"}]

\* `if key in new_config and not new_config[key]: if key in existing_config:
\*      new_config[key] = existing_config[key]`
preserve(new_config, existing_config, field) ==
    IF new_config[field] = "" /\ existing_config[field] # Absent
    THEN existing_config[field]
    ELSE new_config[field]

\* PostgresConnection.preserve_sensitive_fields
postgres_preserve_sensitive_fields(new_config, existing_config) ==
    [new_config EXCEPT !.password = preserve(new_config, existing_config, "password")]

\* S3Connection.preserve_sensitive_fields
s3_preserve_sensitive_fields(new_config, existing_config) ==
    IF new_config.credential_type = "default"
       /\ existing_config.credential_type = "manual"
    THEN [new_config EXCEPT !.aws_access_key_id = Absent,
                            !.aws_secret_access_key = Absent,
                            !.aws_session_token = Absent]
    ELSE IF new_config.credential_type = "manual"
    THEN [f \in DOMAIN new_config |->
            IF f \in S3SensitiveFields
            THEN preserve(new_config, existing_config, f)
            ELSE new_config[f]]
    ELSE new_config

\* ConnectionManager.update_saved_connection, the merge before the save: the
\* password key only, whatever the connection's type
update_merge(new_config, existing_config) ==
    [new_config EXCEPT !.password = preserve(new_config, existing_config, "password")]

InitMerge ==
    /\ saved = [c \in ConnIds |-> NoConfig]
    /\ connections = {}
    /\ duckdb_manager = 0
    /\ created = 0
    /\ s3_service = 0
    /\ conn = [m \in Managers |-> FALSE]
    /\ opened = [m \in Managers |-> FALSE]
    /\ boots = [m \in Managers |-> 0]
    /\ attached_connections = [m \in Managers |-> [c \in ConnIds |-> NoName]]
    /\ registered_files = [m \in Managers |-> [f \in FileIds |-> NoName]]
    /\ dbs = {}
    /\ secrets = {}
    /\ views = {}
    /\ requests = [t \in Tasks |-> NoRequest]
    /\ selections = {}
    /\ sql_history = NoHistory
    /\ clock = NoClock
    /\ \E n \in IncomingConfigs, x \in StoredConfigs :
           lastOp = [NoOp EXCEPT !.config = n, !.existing = x]

mergeFrame == <<saved, connections, queryVars, duckdb_manager, created,
                s3_service, conn, opened, boots, attached_connections,
                registered_files, dbs, secrets, views, requests>>

\* what a merge leaves to observe: the connection type in `session`
MergeRecord(op, type, result) ==
    [lastOp EXCEPT !.op = op, !.session = type, !.merged = result]

PostgresPreserveSensitiveFields ==
    /\ lastOp.op = "init"
    /\ lastOp' = MergeRecord("preserve_sensitive_fields", "postgres",
                     postgres_preserve_sensitive_fields(lastOp.config,
                                                        lastOp.existing))
    /\ UNCHANGED mergeFrame

S3PreserveSensitiveFields ==
    /\ lastOp.op = "init"
    /\ lastOp' = MergeRecord("preserve_sensitive_fields", "s3",
                     s3_preserve_sensitive_fields(lastOp.config, lastOp.existing))
    /\ UNCHANGED mergeFrame

\* the merge of update_saved_connection for a connection of the given type
UpdateMerge(type) ==
    /\ lastOp.op = "init"
    /\ lastOp' = MergeRecord("update_saved_connection", type,
                     update_merge(lastOp.config, lastOp.existing))
    /\ UNCHANGED mergeFrame

NextMerge ==
    \/ PostgresPreserveSensitiveFields
    \/ S3PreserveSensitiveFields
    \/ \E t \in ConnTypes : UpdateMerge(t)

SpecMerge == InitMerge /\ [][NextMerge]_vars

\* the sensitive fields of a merge's connection type
SensitiveFields(op) ==
    IF op.session = "postgres" THEN {"password"}
    ELSE IF op.config.credential_type = "manual" THEN S3SensitiveFields
    ELSE {}

\* C21: after the merge of an update, every sensitive field of the
\* connection's type that has a stored value and is empty or missing in the
\* incoming config holds the stored value, and every sensitive field with a
\* non-empty incoming value holds that value.
C21_MergeOnUpdate ==
    lastOp.op \in {"preserve_sensitive_fields", "update_saved_connection"} =>
        \A f \in SensitiveFields(lastOp) :
            /\ (lastOp.config[f] \in {Absent, ""} /\ lastOp.existing[f] # Absent)
                   => lastOp.merged[f] = lastOp.existing[f]
            /\ lastOp.config[f] \notin {Absent, ""}
                   => lastOp.merged[f] = lastOp.config[f]

\* an update of an S3 connection with manual credentials whose incoming
\* secret access key is empty: the stored key is replaced by the empty one
C21_StoredSecretLost ==
    /\ lastOp.op = "update_saved_connection" /\ lastOp.session = "s3"
    /\ lastOp.config.credential_type = "manual"
    /\ lastOp.config.aws_secret_access_key = ""
    /\ lastOp.existing.aws_secret_access_key = "old"
    /\ lastOp.merged.aws_secret_access_key = ""


(***************************************************************************)
(* QueryRepository: the SQL history of a query                             *)
(***************************************************************************)
MaxHistoryVersions == 50
\* calls of update_query_sql that save a version
MaxSaves == 52
\* how often the wall clock is set back between two calls (an adjustment of
\* the system time, the end of daylight-saving time: datetime.now() is the
\* naive local time)
MaxSetBacks == 1
\* the clock moves on by TickStep between two calls; set back, it reads
\* SetBackStep less than before
TickStep == 2
SetBackStep == 3

\* ORDER BY created_at: rows with equal timestamps come in rowid order
Before(x, r) ==
    \/ x.created_at < r.created_at
    \/ x.created_at = r.created_at /\ x.id < r.id

\* the count - 50 rows that come first in ORDER BY created_at ASC
Oldest(rows, k) == {r \in rows : Cardinality({x \in rows : Before(x, r)}) < k}

\* QueryRepository._save_sql_to_history
save_sql_to_history(history, timestamp) ==
    LET row == [id |-> history.seq + 1, created_at |-> timestamp]
        inserted == history.rows \cup {row}
        count == Cardinality(inserted)
    IN [rows |-> IF count > MaxHistoryVersions
                 THEN inserted \ Oldest(inserted, count - MaxHistoryVersions)
                 ELSE inserted,
        seq |-> history.seq + 1]

\* QueryRepository.get_sql_history: the position of each row in the list,
\* ORDER BY created_at DESC
get_sql_history ==
    [r \in sql_history.rows |->
        1 + Cardinality({x \in sql_history.rows : Before(r, x)})]

\* QueryRepository.update_query_sql; `changed` says that save_to_history is
\* set and the text differs from the stored one, `back` that the clock was
\* set back since the last save.  Only the timestamps of saves are stored,
\* and only their order is read, so the clock is followed from save to save
UpdateQuerySql(changed, back) ==
    LET now == IF back THEN clock.now - SetBackStep ELSE clock.now + TickStep
    IN /\ sql_history.seq < MaxSaves
       /\ back => changed /\ clock.set_back < MaxSetBacks
       /\ clock' = IF changed
                   THEN [now |-> now,
                         set_back |-> clock.set_back + (IF back THEN 1 ELSE 0)]
                   ELSE clock
       /\ sql_history' = IF changed THEN save_sql_to_history(sql_history, now)
                         ELSE sql_history
       /\ lastOp' = [NoOp EXCEPT !.op = "update_query_sql", !.hit = changed,
                                 !.total = Cardinality(sql_history.rows)]
       /\ UNCHANGED <<saved, connections, selections, globalVars, sessionVars,
                      cacheVars, engineVars, requests>>

NextHistory == \E changed, back \in BOOLEAN : UpdateQuerySql(changed, back)

SpecHistory == Init /\ [][NextHistory]_vars

\* C22: get_sql_history returns at most 50 versions, most recently saved
\* first, and they are the versions saved last.
C22_HistoryLimit ==
    /\ Cardinality(sql_history.rows) <= MaxHistoryVersions
    /\ \A r, x \in sql_history.rows :
           get_sql_history[r] < get_sql_history[x] => r.id > x.id
    /\ {r.id : r \in sql_history.rows} =
           (sql_history.seq - Cardinality(sql_history.rows) + 1) .. sql_history.seq

\* a save that evicted a version newer than one it kept: the 51st version
\* is in, the first is still listed and the second is gone
C22_NewerVersionEvicted ==
    /\ lastOp.op = "update_query_sql" /\ lastOp.hit
    /\ lastOp.total = MaxHistoryVersions
    /\ Cardinality(sql_history.rows) = MaxHistoryVersions
    /\ \E r \in sql_history.rows : r.id = 1
    /\ ~\E r \in sql_history.rows : r.id = 2


(***************************************************************************)
(* Query selections and the deletion of a connection                       *)
(***************************************************************************)
QueryIds == {"q1", "q2"}

\* QueryRepository.add_table_selection(query_id, connection_id, schema, table)
AddTableSelection(query_id, connection_id) ==
    /\ selections' = selections \cup
                        {[query |-> query_id, connection_id |-> connection_id]}
    /\ lastOp' = [NoOp EXCEPT !.op = "add_table_selection", !.id = connection_id]
    /\ UNCHANGED <<saved, connections, sql_history, clock, globalVars,
                   sessionVars, cacheVars, engineVars, requests>>

\* QueryRepository.delete_selections_by_connection; `total` is the rowcount
DeleteSelectionsByConnection(connection_id) ==
    LET doomed == {s \in selections : s.connection_id = connection_id}
    IN /\ selections' = selections \ doomed
       /\ lastOp' = [NoOp EXCEPT !.op = "delete_selections_by_connection",
                                 !.id = connection_id,
                                 !.total = Cardinality(doomed)]
       /\ UNCHANGED <<saved, connections, sql_history, clock, globalVars,
                      sessionVars, cacheVars, engineVars, requests>>

NextCascade ==
    \/ \E c \in ConnIds, n \in ConnNames, ok \in BOOLEAN : CreateConnection(c, n, ok)
    \/ \E q \in QueryIds, c \in ConnIds : AddTableSelection(q, c)
    \/ \E c \in ConnIds : DeleteSelectionsByConnection(c)
    \/ \E c \in ConnIds, d \in BOOLEAN : Disconnect(c, d)

SpecCascade == Init /\ [][NextCascade]_vars

\* C23: a disconnect with delete_saved = True leaves no selection that
\* references the connection id and no saved configuration of it, and the
\* selections that reference other connections are the same as before.
C23_CascadeDelete ==
    [][(lastOp'.op = "disconnect" /\ lastOp'.force) =>
           /\ \A s \in selections' : s.connection_id # lastOp'.id
           /\ saved'[lastOp'.id] = NoConfig
           /\ {s \in selections' : s.connection_id # lastOp'.id} =
                  {s \in selections : s.connection_id # lastOp'.id}]_vars

\* a stored connection deleted with delete_saved = True: its row and a
\* selection that references it are still there
C23_SelectionsSurvive ==
    /\ lastOp.op = "disconnect" /\ lastOp.force /\ lastOp.outcome = "raised"
    /\ saved[lastOp.id] # NoConfig
    /\ \E s \in selections : s.connection_id = lastOp.id


(***************************************************************************)
(* The caches against the engine                                           *)
(***************************************************************************)
\* C28: in every state the manager's operations reach, every entry of the
\* attachment cache names a database or secret the engine holds and every
\* entry of the file registration cache names a view the engine holds.
C28_CacheNamesEngineObjects ==
    \A m \in Managers :
        /\ \A c \in ConnIds :
               attached_connections[m][c] # NoName =>
                   attached_connections[m][c] \in dbs \cup secrets
        /\ \A f \in FileIds :
               registered_files[m][f] # NoName => registered_files[m][f] \in views

\* a forced attach_postgres whose DETACH went through and whose ATTACH the
\* engine refused: the entry of the earlier attach names nothing
C28_EntryWithoutAttachment ==
    /\ lastOp.op = "attach_postgres" /\ lastOp.force /\ lastOp.err = "engine"
    /\ attached_connections[lastOp.mgr][lastOp.id] = duckdb_identifier[lastOp.name]
    /\ duckdb_identifier[lastOp.name] \notin dbs \cup secrets

\* C29: a manager whose handle is not open, never opened or closed, has both
\* caches empty; an attach that returned an entry ran on an open handle.
C29_NoHandleNoEntries ==
    /\ \A m \in Managers :
           ~conn[m] =>
               /\ \A c \in ConnIds : attached_connections[m][c] = NoName
               /\ \A f \in FileIds : registered_files[m][f] = NoName
    /\ (lastOp.op \in AttachOps /\ lastOp.outcome = "returned") =>
           conn[lastOp.mgr]

\* a handle closed over one cached entry, and the session Closed
C29_Witness ==
    /\ lastOp.op = "close" /\ lastOp.hit /\ lastOp.cleared = 1
    /\ SessionState(lastOp.mgr) = "Closed"
    /\ \A c \in ConnIds : attached_connections[lastOp.mgr][c] = NoName

NameRemovalOps == {"detach_source", "drop_secret", "unregister_file_by_view_name"}

\* the cache a removal by engine name searches
CacheOf(op, attached, files) ==
    IF op.op = "unregister_file_by_view_name"
    THEN files[op.mgr] ELSE attached[op.mgr]

\* C30: after a detach_source, drop_secret or unregister_file_by_view_name
\* that went through, no entry of the cache it searches maps an id to the
\* name it was given, and every entry with another name is as it was.
C30_RemovalByNameExact ==
    [][(lastOp'.op \in NameRemovalOps /\ lastOp'.hit) =>
           LET before == CacheOf(lastOp', attached_connections, registered_files)
               after == CacheOf(lastOp', attached_connections', registered_files')
           IN /\ \A k \in DOMAIN after : after[k] # lastOp'.name
              /\ \A k \in DOMAIN before :
                     before[k] # lastOp'.name => after[k] = before[k]]_vars

\* a detach_source that removed one id's entry and left the entry of a
\* second id cached under the same name
C30_SecondHolderLeft ==
    /\ lastOp.op = "detach_source" /\ lastOp.hit /\ lastOp.id # ""
    /\ \E c \in ConnIds :
           /\ c # lastOp.id
           /\ attached_connections[lastOp.mgr][c] = lastOp.name
    /\ lastOp.name \notin dbs


(***************************************************************************)
(* The manager's reading operations                                        *)
(***************************************************************************)
\* a synchronisation that enters what it finds under every id
sync_cache_guessing(cache, m) ==
    [cache EXCEPT ![m] = [k \in DOMAIN @ |-> duckdb_identifier[<<"1", "x">>]]]

\* DuckDBManager._sync_cache_with_duckdb: it lists the engine's databases and
\* logs them; "we'll just log that connections exist, but won't add to cache"
sync_cache_with_duckdb(cache, m) == cache

\* the attachment cache after connect(): the synchronisation runs when the
\* call creates the handle
Synced(m) ==
    attached_connections' =
        IF conn[m] THEN attached_connections
        ELSE sync_cache_with_duckdb(attached_connections, m)

\* DuckDBManager.is_attached
IsAttached(connection_id) ==
    \E m \in Managers :
        /\ ViaGlobal(m)
        /\ lastOp' = [NoOp EXCEPT !.op = "is_attached", !.mgr = m,
                         !.id = connection_id,
                         !.hit = attached_connections[m][connection_id] # NoName]
        /\ UNCHANGED <<repoVars, s3_service, sessionVars, cacheVars, engineVars,
                       requests>>

\* DuckDBManager.get_attached_identifier; None is NoName
GetAttachedIdentifier(connection_id) ==
    \E m \in Managers :
        /\ ViaGlobal(m)
        /\ lastOp' = [NoOp EXCEPT !.op = "get_attached_identifier", !.mgr = m,
                         !.id = connection_id,
                         !.result = attached_connections[m][connection_id]]
        /\ UNCHANGED <<repoVars, s3_service, sessionVars, cacheVars, engineVars,
                       requests>>

\* DuckDBManager.get_attached_sources: SHOW DATABASES, [] when it fails;
\* `total` is the length of the list it returns
GetAttachedSources(ok) ==
    \E m \in Managers :
        /\ ViaGlobal(m)
        /\ Connected(m)
        /\ Synced(m)
        /\ lastOp' = [NoOp EXCEPT !.op = "get_attached_sources", !.mgr = m,
                         !.session = SessionState(m),
                         !.total = IF ok THEN Cardinality(dbs) ELSE 0]
        /\ UNCHANGED <<repoVars, s3_service, registered_files, engineVars,
                       requests>>

\* DuckDBManager.get_file_view_name
GetFileViewName(file_id, file_name, readable) ==
    \E m \in Managers :
        /\ ViaGlobal(m)
        /\ lastOp' = [NoOp EXCEPT !.op = "get_file_view_name", !.mgr = m,
                         !.id = file_id, !.name = view_name_of[file_name],
                         !.result = get_file_view_name(m, file_id, file_name,
                                                       readable)]
        /\ UNCHANGED <<repoVars, s3_service, sessionVars, cacheVars, engineVars,
                       requests>>

\* DuckDBManager.get_file_metadata: get_file_view_name, then DESCRIBE and
\* SELECT COUNT(*) on the view it names, whose error is raised again
GetFileMetadata(file_id, file_name, readable) ==
    \E m \in Managers :
        LET view_name == get_file_view_name(m, file_id, file_name, readable)
        IN /\ ViaGlobal(m)
           /\ Connected(m)
           /\ Synced(m)
           /\ lastOp' = [NoOp EXCEPT !.op = "get_file_metadata", !.mgr = m,
                            !.id = file_id, !.name = view_name_of[file_name],
                            !.session = SessionState(m),
                            !.result = view_name,
                            !.outcome = IF view_name \in views /\ readable
                                        THEN "returned" ELSE "raised",
                            !.err = IF view_name \in views /\ readable
                                    THEN "none" ELSE "engine"]
           /\ UNCHANGED <<repoVars, s3_service, registered_files, engineVars,
                          requests>>

NextReads ==
    \/ \E c \in ConnIds, ok \in BOOLEAN : AttachPostgres(c, <<"1", "x">>, FALSE, ok)
    \/ \E f \in UploadedFiles, n \in FileNames, ok \in BOOLEAN :
           RegisterFile(f, n, "csv", ok)
    \/ \E c \in ConnIds : RemoveConnectionFromCache(c)
    \/ \E v \in ViewNames : UnregisterFileByViewName(v)
    \/ \E ok \in BOOLEAN : ExecuteQuery(ok)
    \/ \E c \in ConnIds : IsAttached(c)
    \/ \E c \in ConnIds : GetAttachedIdentifier(c)
    \/ \E ok \in BOOLEAN : GetAttachedSources(ok)
    \/ \E f \in UploadedFiles, n \in FileNames, readable \in BOOLEAN :
           GetFileViewName(f, n, readable)
    \/ \E f \in UploadedFiles, n \in FileNames, readable \in BOOLEAN :
           GetFileMetadata(f, n, readable)
    \/ Close

SpecReads == Init /\ [][NextReads]_vars

ReadOps == {"execute_query", "is_attached", "get_attached_identifier",
            "get_attached_sources", "get_file_view_name", "get_file_metadata"}

ExtensionFailures == [ExtensionNames -> {"none", "install", "load"}]

\* a bootstrap without the try block around an extension
extension_error_raised(failure) == "raise"

\* `except Exception as e: logger.warning(...)` inside the loop body
extension_error(failure) == "continue"

\* DuckDBManager._install_extensions: the loop over the extensions left
RECURSIVE install_each(_, _)
install_each(extensions, failures) ==
    IF extensions = <<>>
    THEN [attempted |-> {}, loaded |-> {}, outcome |-> "returned"]
    ELSE LET ext == Head(extensions)
             rest == install_each(Tail(extensions), failures)
         IN IF failures[ext] = "none"
            THEN [rest EXCEPT !.attempted = @ \cup {ext}, !.loaded = @ \cup {ext}]
            ELSE IF extension_error(failures[ext]) = "continue"
            THEN [rest EXCEPT !.attempted = @ \cup {ext}]
            ELSE [attempted |-> {ext}, loaded |-> {}, outcome |-> "raised"]

\* DuckDBManager.connect(); `failures` says which statements of the
\* bootstrap the engine refuses.  The handle is assigned before the bootstrap.
Connect(failures) ==
    \E m \in Managers :
        LET r == IF conn[m]
                 THEN [attempted |-> {}, loaded |-> {}, outcome |-> "returned"]
                 ELSE install_each(Extensions, failures)
        IN /\ ViaGlobal(m)
           /\ Connected(m)
           /\ lastOp' = [NoOp EXCEPT !.op = "connect", !.mgr = m,
                            !.session = SessionState(m), !.hit = ~conn[m],
                            !.failures = failures, !.outcome = r.outcome,
                            !.attempted = r.attempted, !.loaded = r.loaded]
           /\ UNCHANGED <<repoVars, s3_service, cacheVars, engineVars, requests>>

NextBootstrap ==
    \/ \E failures \in ExtensionFailures : Connect(failures)
    \/ \E c \in ConnIds, ok \in BOOLEAN : AttachPostgres(c, <<"1", "x">>, FALSE, ok)
    \/ Close

SpecBootstrap == Init /\ [][NextBootstrap]_vars

\* C27: a connect() returns with the handle open and the session Open
\* whichever INSTALL or LOAD statements fail, and the bootstrap it ran has
\* attempted every extension and loaded those without a failure.
C27_BootstrapFailuresNotFatal ==
    lastOp.op = "connect" =>
        /\ lastOp.outcome = "returned"
        /\ conn[lastOp.mgr] /\ SessionState(lastOp.mgr) = "Open"
        /\ lastOp.hit =>
               /\ lastOp.attempted = ExtensionNames
               /\ lastOp.loaded =
                      {x \in ExtensionNames : lastOp.failures[x] = "none"}

\* the first extension failed to install, the second to load, and the third
\* was loaded on the new handle
C27_Witness ==
    /\ lastOp.op = "connect" /\ lastOp.hit
    /\ lastOp.failures["postgres"] = "install"
    /\ lastOp.failures["httpfs"] = "load"
    /\ lastOp.loaded = {"spatial"}
    /\ conn[lastOp.mgr]

====
